---------------------------- MODULE Spec2Model ----------------------------
(***************************************************************************)
(* A model of static/inner.js: two tabs ("participants") of one browser    *)
(* signal through the browser-wide WebSocket limit.  Each tab owns a       *)
(* SocketPool (an insertion-ordered set of sockets); the browser accepts   *)
(* or refuses every new WebSocket asynchronously against its limit.        *)
(*                                                                         *)
(* Every async function is cut at its awaits: one action is the code that  *)
(* runs between two suspensions.  Time is measured in quarter              *)
(* milliseconds, so that (i + 1.25) * pulseMs is an integer.               *)
(***************************************************************************)
EXTENDS Integers, Sequences, FiniteSets, TLC

VARIABLES
    browser,   \* kBrowser of every participant
    debug,     \* the debug flag of every participant (manual mode)
    sockets,   \* pool._sockets of every participant, in insertion order
    foreign,   \* per browser: slots held by another occupant of the limit
    pc,        \* the await every participant is suspended at
    wake,      \* the time its timer fires
    now,       \* Date.now(), in quarter milliseconds
    jitter,    \* the most a timer fires late, in milliseconds
    frame,     \* the local variables of the functions a participant is inside
    codec      \* IntegerCodec on its own: the inputs and results of its functions

vars == <<browser, debug, sockets, foreign, pc, wake, now, jitter, frame, codec>>

-----------------------------------------------------------------------------
(* Bounds and constants *)

\* The presets' listSize, maxSlots and maxValue (5, 255, 128), scaled down.
listSize == 2
maxSlots == 3
maxValue == 2
\* The cycles of one run (10 in the source), scaled down.
NumCycles == 2
\* The margin of the overshoot-then-trim adjustment (5 in the source), scaled down.
Overshoot == 1
\* Date.now() when the pages load, in milliseconds.
Epoch == 6001
\* The codec's inputs.
MaxListSize == 3
MaxRadix == 4

Part == {1, 2}
Browsers == {"Chrome", "Firefox"}

pulseMs(b) == IF b = "Chrome" THEN 50 ELSE 350
settlingTimeMs(b) == IF b = "Chrome" THEN 0 ELSE 50

\* Milliseconds to the model's time unit.
Q(ms) == 4 * ms

Min(a, b) == IF a < b THEN a ELSE b
Max(a, b) == IF a > b THEN a ELSE b

\* undefined or NaN where a number is expected
NaN == 0 - 1

RECURSIVE Pow(_, _)
Pow(b, e) == IF e = 0 THEN 1 ELSE b * Pow(b, e - 1)

\* The integers of size digits in radix maxSmallInteger.
Payloads(size, maxSmallInteger) == 0 .. (Pow(maxSmallInteger, size) - 1)

-----------------------------------------------------------------------------
(* IntegerCodec *)

RECURSIVE FoldList(_, _, _, _)
FoldList(list, i, maxSmallInteger, result) ==
    IF i < 1 THEN result
    ELSE FoldList(list, i - 1, maxSmallInteger, result * maxSmallInteger + list[i])

\* A variant of listToBigInteger that folds the digits from the first to the
\* last, as if the list were most-significant first.
listToBigIntegerAscending(list, size, maxSmallInteger) ==
    LET RECURSIVE Fold(_, _)
        Fold(i, result) ==
            IF i > size THEN result
            ELSE Fold(i + 1, result * maxSmallInteger + list[i])
    IN  Fold(1, 0)

\* for (i = listSize - 1; i >= 0; --i) result = result * max + list[i]
listToBigInteger(list, size, maxSmallInteger) ==
    FoldList(list, size, maxSmallInteger, 0)

RECURSIVE PushDigits(_, _, _, _)
PushDigits(list, feed, n, maxSmallInteger) ==
    IF n = 0 THEN list
    ELSE LET remainder == feed % maxSmallInteger
         IN  PushDigits(Append(list, remainder),
                        (feed - remainder) \div maxSmallInteger,
                        n - 1, maxSmallInteger)

bigIntegerToList(bigInteger, size, maxSmallInteger) ==
    PushDigits(<<>>, bigInteger, size, maxSmallInteger)

HexChars == <<"0", "1", "2", "3", "4", "5", "6", "7",
              "8", "9", "a", "b", "c", "d", "e", "f">>

RECURSIVE Digits16(_)
Digits16(n) ==
    IF n < 16 THEN <<HexChars[n + 1]>>
    ELSE Append(Digits16(n \div 16), HexChars[(n % 16) + 1])

\* Number.prototype.toString(16)
ToString16(n) == IF n < 0 THEN <<"-">> \o Digits16(-n) ELSE Digits16(n)

\* String.prototype.slice(1)
Slice1(str) == IF Len(str) <= 1 THEN <<>> ELSE SubSeq(str, 2, Len(str))

\* numBits = listSize * log(maxValue) / log(2), kept as the pair it is computed from.
numBits(size, maxSmallInteger) == [listSize |-> size, maxValue |-> maxSmallInteger]

\* Math.ceil(numBits / 4): the least n with 4 * n >= numBits, that is
\* 16^n >= maxValue^listSize.
CeilQuarter(bits) ==
    CHOOSE n \in 0 .. (bits.listSize * bits.maxValue) :
        /\ Pow(16, n) >= Pow(bits.maxValue, bits.listSize)
        /\ \A m \in 0 .. (n - 1) : Pow(16, m) < Pow(bits.maxValue, bits.listSize)

\* A variant of bigIntegerToHex without the padding: bigInteger.toString(16).
bigIntegerToHexUnpadded(bigInteger, bits) == ToString16(bigInteger)

bigIntegerToHex(bigInteger, bits) ==
    LET nHexDigits == CeilQuarter(bits)
    IN  Slice1(ToString16(bigInteger + Pow(16, nHexDigits)))

\* IntegerCodec on its own: the constructor's arguments, an integer, and the
\* results of the functions applied so far.
Codec0 == [listSize |-> 0, maxValue |-> 0, bigInteger |-> 0, list |-> <<>>,
           decoded |-> NaN, hex |-> <<>>, stage |-> "none"]

-----------------------------------------------------------------------------
(* SocketPool *)

\* A socket is "connecting" until the browser has answered its request, then
\* "open" (it occupies one slot of the limit) or "closed" (readyState 3).
ReadyStates == {"connecting", "open", "closed"}

held(s) == Len(s)

\* max calls of consumeOne: each adds a new WebSocket to the set
consumeOnes(s, max) == s \o [k \in 1 .. max |-> "connecting"]

\* n calls of releaseOne: each closes and deletes the first socket of the set
releaseOnes(s, n) == IF n <= 0 THEN s ELSE SubSeq(s, n + 1, Len(s))

\* The sockets of a set that occupy a slot of the browser's limit.
Slots(s) == Cardinality({k \in 1 .. Len(s) : s[k] = "open"})

collectGarbage(s) == SelectSeq(s, LAMBDA x : x # "closed")

\* A variant of numberToRelease that is not capped by what is held:
\* numberToRelease = max.
numberToReleaseUncapped(s, max) == max

\* Math.min(max, pool.held())
numberToRelease(s, max) == Min(max, held(s))

\* The browser has answered every request of the set.
Answered(s) == \A k \in 1 .. Len(s) : s[k] # "connecting"

\* A consume(pool, max) called with nStart units held finds, when it settles,
\* every request answered and refused only beyond the limit.
Granted(s, nStart, max) ==
    Answered(s) /\ Slots(s) = Min(maxSlots, nStart + Max(max, 0))

Open(p) == Slots(sockets[p])

\* The slots of a browser's limit in use.
Occupied(b) ==
    LET RECURSIVE Sum(_)
        Sum(S) == IF S = {} THEN 0
                  ELSE LET p == CHOOSE x \in S : TRUE
                       IN  Open(p) + Sum(S \ {p})
    IN  Sum({p \in Part : browser[p] = b}) + foreign[b]

Headroom(b) == maxSlots - Occupied(b)

-----------------------------------------------------------------------------
(* The local variables of a participant *)



Commands == {"consume 1", "consume all", "release 1", "release all",
             "probe", "is sender", "send", "receive"}

\* The commands that are one bulk operation.
BulkCommands == {"consume 1", "consume all", "release 1", "release all",
                 "probe", "is sender"}

Frame0 ==
    [ cmd         |-> "none",   \* "run", or the command of the button clicked
      cycle       |-> 0,        \* run: i
      t0          |-> 0,        \* run: t0
      startTime   |-> 0,        \* sendInteger, receiveInteger: startTime
      nStart      |-> 0,        \* consume: nStart
      consumedCount |-> 0,      \* probe: consumedCount
      numberToRelease |-> 0,    \* release: numberToRelease
      i           |-> 0,        \* sendInteger, receiveInteger: i
      bigInteger  |-> 0,        \* sendInteger: bigInteger
      list        |-> <<>>,     \* sendInteger: list
      lastInteger |-> 0,        \* sendInteger: lastInteger
      integer     |-> 0,        \* sendInteger: integer
      integerList |-> <<>>,     \* receiveInteger: integerList
      ret         |-> <<>>,     \* what the last command or cycle returned
      clicks      |-> 0,        \* manual mode: the buttons clicked so far
      \* What an observer has seen of the participant's current cycle or command:
      role        |-> "none",   \* what isSender returned
      clean       |-> FALSE,    \* sendInteger: every consume so far was Granted
      expect      |-> <<>> ]    \* probe: Undisturbed, when it was called

Settle(p) == now + Q(settlingTimeMs(browser[p]))

\* One step of participant p: its socket set becomes s (a socket deleted from
\* it was closed, which frees its slot), its locals become f, and it is
\* suspended at k until w.
Step(p, s, f, k, w) ==
    /\ sockets' = [sockets EXCEPT ![p] = s]
    /\ frame' = [frame EXCEPT ![p] = f]
    /\ pc' = [pc EXCEPT ![p] = k]
    /\ wake' = [wake EXCEPT ![p] = w]
    /\ UNCHANGED <<browser, debug, foreign, now, jitter, codec>>

Due(p, k) == pc[p] = k /\ now >= wake[p]

\* consume, to its await: nStart, max times consumeOne, sleepMs(settlingTimeMs)
BeginConsume(p, s, max, f, k) ==
    Step(p, consumeOnes(s, max), [f EXCEPT !.nStart = held(s)], k, Settle(p))

\* release with max # 0, to its await: numberToRelease times releaseOne, sleepMs
BeginRelease(p, s, max, f, k) ==
    LET n == numberToRelease(s, max)
    IN  Step(p, releaseOnes(s, n), [f EXCEPT !.numberToRelease = n], k, Settle(p))

\* Math.ceil(Date.now() / interval) * interval
CeilTo(t, interval) == ((t + interval - 1) \div interval) * interval

RoundInterval(p) == Q((1 + listSize) * pulseMs(browser[p]))

-----------------------------------------------------------------------------
(* run, isSender, sendInteger, receiveInteger: what follows each await *)

\* a command's promise resolves: the click handler logs the result
CommandReturn(p, s, f, value) ==
    Step(p, s, [Frame0 EXCEPT !.ret = value, !.clicks = f.clicks,
                              !.clean = f.clean], "idle", now)

\* A variant of EnterCycle whose loop runs once more: i <= 10.
EnterCycleOnceMore(p, s, f) ==
    IF f.cycle < NumCycles + 1
    THEN Step(p, s, f, "round", CeilTo(now, RoundInterval(p)))
    ELSE Step(p, s, f, "done", now)

\* run: the head of the for loop
EnterCycle(p, s, f) ==
    IF f.cycle < NumCycles
    THEN Step(p, s, f, "round", CeilTo(now, RoundInterval(p)))
    ELSE Step(p, s, f, "done", now)

\* run: a cycle's send or receive has returned
CycleEnd(p, s, f, value) ==
    IF f.cmd = "run"
    THEN EnterCycle(p, s, [Frame0 EXCEPT !.cmd = "run", !.cycle = f.cycle + 1,
                                         !.ret = value,
                                         !.role = f.role, !.clean = f.clean])
    ELSE CommandReturn(p, s, f, value)

\* sendInteger: the head of its for loop, and its return
SendLoop(p, s, f) ==
    IF f.i < listSize
    THEN Step(p, s, f, "txSleep",
              f.startTime + Q((f.i + 1) * pulseMs(browser[p])))
    ELSE CycleEnd(p, s, f, bigIntegerToHex(f.bigInteger, numBits(listSize, maxValue)))

\* sendInteger, to the await of its first consume
SendEntry(p, s, f, x, startTime) ==
    BeginConsume(p, s, maxSlots - held(s),
                 [f EXCEPT !.bigInteger = x, !.startTime = startTime,
                           !.list = bigIntegerToList(x, listSize, maxValue)],
                 "txBase")

\* A variant of ReceiveLoop that probes a quarter pulse after the cycle's
\* start: sleepUntil(startTime + (i + 0.25) * pulseMs).
ReceiveLoopQuarter(p, s, f) ==
    IF f.i < listSize
    THEN Step(p, s, f, "rxSleep",
              IF f.startTime = NaN THEN now
              ELSE f.startTime + (4 * f.i + 1) * pulseMs(browser[p]))
    ELSE CycleEnd(p, s, f,
                  bigIntegerToHex(listToBigInteger(f.integerList, listSize, maxValue),
                                  numBits(listSize, maxValue)))

\* receiveInteger: the head of its for loop, and its return
ReceiveLoop(p, s, f) ==
    IF f.i < listSize
    THEN Step(p, s, f, "rxSleep",
              IF f.startTime = NaN THEN now
              ELSE f.startTime + (4 * f.i + 5) * pulseMs(browser[p]))
    ELSE CycleEnd(p, s, f,
                  bigIntegerToHex(listToBigInteger(f.integerList, listSize, maxValue),
                                  numBits(listSize, maxValue)))

ReceiveEntry(p, s, f, startTime) ==
    ReceiveLoop(p, s, [f EXCEPT !.startTime = startTime, !.i = 0,
                                !.integerList = <<>>])

\* isSender returns
IsSenderReturn(p, s, f0, sender) ==
    LET f == [f0 EXCEPT !.role = IF sender THEN "sender" ELSE "receiver",
                        !.nStart = 0, !.numberToRelease = 0]
    IN  IF f.cmd = "run"
        THEN IF sender
             THEN \E x \in Payloads(listSize, maxValue) :
                      SendEntry(p, s, f, x, f.t0)
             ELSE ReceiveEntry(p, s, f, f.t0)
        ELSE CommandReturn(p, s, f, sender)

\* isSender, to its first await
IsSenderEntry(p, s, f) ==
    IF held(s) = 0
    THEN BeginConsume(p, s, maxSlots, f, "negConsume")
    ELSE BeginRelease(p, s, held(s), f, "negRelease")

\* probe returns
ProbeReturn(p, s, f, consumedCount) ==
    IF f.cmd = "probe"
    THEN CommandReturn(p, s, f, consumedCount)
    ELSE ReceiveLoop(p, s, [f EXCEPT !.i = @ + 1, !.nStart = 0,
                                     !.consumedCount = 0, !.numberToRelease = 0,
                                     !.integerList = Append(@, consumedCount - 1)])

-----------------------------------------------------------------------------
(* The actions of a participant *)

\* run: the cycle's boundary has come; isSender starts
Round(p) ==
    /\ Due(p, "round")
    /\ IsSenderEntry(p, sockets[p],
                     [frame[p] EXCEPT !.t0 = now, !.role = "none",
                                      !.ret = <<>>, !.clean = FALSE])

\* isSender: release(pool, pool.held()) has settled
NegRelease(p) ==
    /\ Due(p, "negRelease")
    /\ BeginConsume(p, sockets[p], maxSlots,
                    [frame[p] EXCEPT !.numberToRelease = 0], "negConsume")

\* A variant of NegConsume that returns false without the release.
NegConsumeKeep(p) ==
    /\ Due(p, "negConsume")
    /\ LET s == collectGarbage(sockets[p])
       IN  IsSenderReturn(p, s, frame[p], 2 * held(s) >= maxSlots)

\* isSender: consume(pool, pool.maxSlots) has settled
NegConsume(p) ==
    /\ Due(p, "negConsume")
    /\ LET s == collectGarbage(sockets[p])
       IN  IF 2 * held(s) < maxSlots
           THEN IF held(s) = 0
                THEN IsSenderReturn(p, s, frame[p], FALSE)
                ELSE BeginRelease(p, s, held(s), [frame[p] EXCEPT !.nStart = 0],
                                  "negYield")
           ELSE IsSenderReturn(p, s, frame[p], TRUE)

\* isSender: the receiver's release(pool, pool.held()) has settled
NegYield(p) ==
    /\ Due(p, "negYield")
    /\ IsSenderReturn(p, sockets[p], frame[p], FALSE)

\* sendInteger: consume(pool, pool.maxSlots - pool.held()) has settled
TxBase(p) ==
    /\ Due(p, "txBase")
    /\ SendLoop(p, collectGarbage(sockets[p]),
                [frame[p] EXCEPT !.lastInteger = 0, !.i = 0, !.nStart = 0,
                                 !.clean = Granted(sockets[p], frame[p].nStart,
                                                   maxSlots - frame[p].nStart)])

\* A variant of TxPulse whose target is the digit itself: integer = list[i].
TxPulseDigit(p) ==
    /\ Due(p, "txSleep")
    /\ LET f == [frame[p] EXCEPT !.integer = frame[p].list[frame[p].i + 1]]
           delta == f.integer - f.lastInteger
       IN  IF browser[p] = "Firefox"
           THEN BeginConsume(p, sockets[p], f.lastInteger + Overshoot, f, "txOver")
           ELSE IF delta > 0
                THEN BeginRelease(p, sockets[p], delta, f, "txRelease")
                ELSE BeginConsume(p, sockets[p], -delta, f, "txConsume")

\* sendInteger: a pulse begins
TxPulse(p) ==
    /\ Due(p, "txSleep")
    /\ LET f == [frame[p] EXCEPT !.integer = 1 + frame[p].list[frame[p].i + 1]]
           delta == f.integer - f.lastInteger
       IN  IF browser[p] = "Firefox"
           THEN BeginConsume(p, sockets[p], f.lastInteger + Overshoot, f, "txOver")
           ELSE IF delta > 0
                THEN BeginRelease(p, sockets[p], delta, f, "txRelease")
                ELSE BeginConsume(p, sockets[p], -delta, f, "txConsume")

\* A variant of TxOver that trims one unit less: release(pool, integer - 1).
TxOverShort(p) ==
    /\ Due(p, "txOver")
    /\ BeginRelease(p, collectGarbage(sockets[p]), frame[p].integer - 1,
                    [frame[p] EXCEPT !.nStart = 0,
                                     !.clean = @ /\ Granted(sockets[p], frame[p].nStart,
                                                   frame[p].lastInteger + Overshoot)],
                    "txRelease")

\* sendInteger: consume(pool, lastInteger + 5) has settled
TxOver(p) ==
    /\ Due(p, "txOver")
    /\ BeginRelease(p, collectGarbage(sockets[p]), frame[p].integer,
                    [frame[p] EXCEPT !.nStart = 0,
                                     !.clean = @ /\ Granted(sockets[p], frame[p].nStart,
                                                   frame[p].lastInteger + Overshoot)],
                    "txRelease")

\* sendInteger: the pulse's release has settled
TxRelease(p) ==
    /\ Due(p, "txRelease")
    /\ SendLoop(p, sockets[p],
                [frame[p] EXCEPT !.lastInteger = frame[p].integer, !.i = @ + 1,
                                 !.integer = 0, !.numberToRelease = 0])

\* sendInteger: the pulse's consume(pool, -delta) has settled
TxConsume(p) ==
    /\ Due(p, "txConsume")
    /\ SendLoop(p, collectGarbage(sockets[p]),
                [frame[p] EXCEPT !.lastInteger = frame[p].integer, !.i = @ + 1,
                                 !.integer = 0, !.nStart = 0,
                                 !.clean = @ /\ Granted(sockets[p], frame[p].nStart,
                                                   frame[p].lastInteger - frame[p].integer)])

\* receiveInteger: the pulse's probe starts
RxPulse(p) ==
    /\ Due(p, "rxSleep")
    /\ BeginConsume(p, sockets[p], maxValue, frame[p], "probeConsume")

\* A variant of ProbeConsume that keeps one of the units it took:
\* release(pool, consumedCount - 1).
ProbeConsumeKeep(p) ==
    /\ Due(p, "probeConsume")
    /\ LET s == collectGarbage(sockets[p])
           consumedCount == held(s) - frame[p].nStart
       IN  IF consumedCount = 0 \/ consumedCount = 1
           THEN ProbeReturn(p, s, frame[p], consumedCount)
           ELSE BeginRelease(p, s, consumedCount - 1,
                             [frame[p] EXCEPT !.consumedCount = consumedCount],
                             "probeRelease")

\* probe: its consume has settled
ProbeConsume(p) ==
    /\ Due(p, "probeConsume")
    /\ LET s == collectGarbage(sockets[p])
           consumedCount == held(s) - frame[p].nStart
       IN  IF consumedCount = 0
           THEN ProbeReturn(p, s, frame[p], 0)
           ELSE BeginRelease(p, s, consumedCount,
                             [frame[p] EXCEPT !.consumedCount = consumedCount],
                             "probeRelease")

\* probe: its release has settled
ProbeRelease(p) ==
    /\ Due(p, "probeRelease")
    /\ ProbeReturn(p, sockets[p], frame[p], frame[p].consumedCount)

-----------------------------------------------------------------------------
(* Manual mode: the command buttons *)

\* The most buttons clicked in the two tabs together.
MaxClicks == 2

\* The most a timer fires late, in ms.
MaxLate == 13

\* consume(pool, max) or release(pool, max) of a command has settled
CmdConsume(p) ==
    /\ Due(p, "cmdConsume")
    /\ LET s == collectGarbage(sockets[p])
       IN  CommandReturn(p, s, frame[p], held(s) - frame[p].nStart)

CmdRelease(p) ==
    /\ Due(p, "cmdRelease")
    /\ CommandReturn(p, sockets[p], frame[p], frame[p].numberToRelease)

\* What probe(pool, max) meets when it is called: if the caller's units are
\* all open and no other participant is inside an operation or has a request
\* unanswered, the headroom capped at max and the operations the others have
\* started so far; nothing otherwise.
Undisturbed(p, max) ==
    IF /\ \A k \in 1 .. Len(sockets[p]) : sockets[p][k] = "open"
       /\ \A q \in Part \ {p} : pc[q] = "idle" /\ Answered(sockets[q])
    THEN <<Min(max, Headroom(browser[p])), frame[CHOOSE q \in Part : q # p].clicks>>
    ELSE <<>>

\* A click on a command button, while no command of the participant is running.
Click(p, c) ==
    /\ pc[p] = "idle"
    /\ debug[p]
    /\ frame[1].clicks + frame[2].clicks < MaxClicks
    /\ LET s == sockets[p]
           f == [Frame0 EXCEPT !.cmd = c, !.clicks = frame[p].clicks + 1]
       IN  CASE c = "consume 1" -> BeginConsume(p, s, 1, f, "cmdConsume")
             [] c = "consume all" -> BeginConsume(p, s, maxSlots * 2, f, "cmdConsume")
             [] c = "release 1" -> BeginRelease(p, s, 1, f, "cmdRelease")
             [] c = "release all" ->
                    IF held(s) = 0 THEN CommandReturn(p, s, f, 0)
                    ELSE BeginRelease(p, s, held(s), f, "cmdRelease")
             [] c = "probe" ->
                    BeginConsume(p, s, maxSlots,
                                 [f EXCEPT !.expect = Undisturbed(p, maxSlots)],
                                 "probeConsume")
             [] c = "is sender" -> IsSenderEntry(p, s, f)
             [] c = "send" ->
                    \E x \in Payloads(listSize, maxValue) : SendEntry(p, s, f, x, 0)
             [] c = "receive" -> ReceiveEntry(p, s, f, NaN)

-----------------------------------------------------------------------------
(* The browser *)

FirstConnecting(s) ==
    CHOOSE k \in 1 .. Len(s) :
        s[k] = "connecting" /\ \A j \in 1 .. (k - 1) : s[j] # "connecting"

\* The browser answers the oldest unanswered request of a participant: the
\* socket opens if the limit has a free slot, and fails (readyState 3) if not.
Answer(p) ==
    /\ \E k \in 1 .. Len(sockets[p]) : sockets[p][k] = "connecting"
    /\ sockets' = [sockets EXCEPT ![p][FirstConnecting(sockets[p])] =
                       IF Headroom(browser[p]) > 0 THEN "open" ELSE "closed"]
    /\ UNCHANGED <<browser, debug, foreign, pc, wake, now, jitter, frame, codec>>

Sleeping(p) == pc[p] \notin {"idle", "done"}

\* The latest a timer set for w fires.
Deadline(w) == w + Q(jitter)

\* Time passes, to an instant at which a timer may fire: a timer fires when it
\* is due or up to jitter ms later, so time does not pass the deadline of a
\* timer that has not fired.
Advance ==
    /\ \E p \in Part, late \in 0 .. jitter :
          /\ Sleeping(p)
          /\ wake[p] + Q(late) > now
          /\ \A q \in Part : Sleeping(q) => wake[p] + Q(late) <= Max(now, Deadline(wake[q]))
          /\ now' = wake[p] + Q(late)
    /\ UNCHANGED <<browser, debug, sockets, foreign, pc, wake, jitter, frame, codec>>

-----------------------------------------------------------------------------
(* Specifications *)

InitPool(b, d, j) ==
    /\ browser = b
    /\ jitter = j
    /\ debug = d
    /\ sockets = [p \in Part |-> <<>>]
    /\ foreign = [x \in Browsers |-> 0]
    \* main: in manual mode the buttons are created; in automatic mode run(pool)
    \* has reached its first await, of sleepUntilNextRoundInterval
    /\ pc = [p \in Part |-> IF d[p] THEN "idle" ELSE "round"]
    /\ wake = [p \in Part |-> IF d[p] THEN 0
                                ELSE CeilTo(Q(Epoch), Q((1 + listSize) * pulseMs(b[p])))]
    /\ now = Q(Epoch)
    /\ frame = [p \in Part |-> [Frame0 EXCEPT !.cmd = IF d[p] THEN "none" ELSE "run"]]

\* Two tabs of one browser, both in automatic mode, loaded in the same round
\* interval; every timer fires when it is due.
Init ==
    /\ \E b \in Browsers : InitPool([p \in Part |-> b], [p \in Part |-> FALSE], 0)
    /\ codec = Codec0

Protocol(p) ==
    \/ NegRelease(p) \/ NegConsume(p) \/ NegYield(p)
    \/ TxBase(p) \/ TxPulse(p) \/ TxOver(p) \/ TxRelease(p) \/ TxConsume(p)
    \/ RxPulse(p) \/ ProbeConsume(p) \/ ProbeRelease(p)

Environment ==
    \/ \E p \in Part : Answer(p)
    \/ Advance

Next ==
    \/ \E p \in Part : Round(p) \/ Protocol(p)
    \/ Environment

Spec == Init /\ [][Next]_vars

\* Two tabs of one browser, both in manual mode.
InitManual ==
    /\ \E b \in Browsers : InitPool([p \in Part |-> b], [p \in Part |-> TRUE], 0)
    /\ codec = Codec0

NextManual ==
    \/ \E p \in Part : \E c \in BulkCommands : Click(p, c)
    \/ \E p \in Part : \/ CmdConsume(p) \/ CmdRelease(p)
                       \/ NegRelease(p) \/ NegConsume(p) \/ NegYield(p)
                       \/ ProbeConsume(p) \/ ProbeRelease(p)
    \/ Environment

SpecManual == InitManual /\ [][NextManual]_vars

-----------------------------------------------------------------------------
(* IntegerCodec on its own *)

\* A list size, a radix and an integer in range, as randomBigInteger draws it.
InitCodec ==
    /\ InitPool([p \in Part |-> "Chrome"], [p \in Part |-> TRUE], 0)
    /\ \E size \in 1 .. MaxListSize, maxSmallInteger \in 2 .. MaxRadix :
          \E x \in Payloads(size, maxSmallInteger) :
              codec = [Codec0 EXCEPT !.listSize = size, !.maxValue = maxSmallInteger,
                                     !.bigInteger = x, !.stage = "input"]

PoolUnchanged ==
    UNCHANGED <<browser, debug, sockets, foreign, pc, wake, now, jitter, frame>>

Encode ==
    /\ codec.stage = "input"
    /\ codec' = [codec EXCEPT !.stage = "encoded",
                              !.list = bigIntegerToList(codec.bigInteger, codec.listSize,
                                                        codec.maxValue)]
    /\ PoolUnchanged

Decode ==
    /\ codec.stage = "encoded"
    /\ codec' = [codec EXCEPT !.stage = "decoded",
                              !.decoded = listToBigInteger(codec.list, codec.listSize,
                                                           codec.maxValue)]
    /\ PoolUnchanged

Format ==
    /\ codec.stage = "decoded"
    /\ codec' = [codec EXCEPT !.stage = "formatted",
                              !.hex = bigIntegerToHex(codec.bigInteger,
                                                      numBits(codec.listSize, codec.maxValue))]
    /\ PoolUnchanged

NextCodec == Encode \/ Decode \/ Format

SpecCodec == InitCodec /\ [][NextCodec]_vars

-----------------------------------------------------------------------------
(* The two adjustments of sendInteger, side by side *)

\* The other occupant of the limit closes one of its sockets, in both browsers.
ForeignRelease ==
    /\ \A b \in Browsers : foreign[b] > 0
    /\ foreign' = [b \in Browsers |-> foreign[b] - 1]
    /\ UNCHANGED <<browser, debug, sockets, pc, wake, now, jitter, frame, codec>>

\* "send" has just been clicked in a Chrome tab and in a Firefox tab, with the
\* same integer, each tab holding h open sockets while another occupant of its
\* browser's limit holds other slots: sendInteger is at the await of its first
\* consume.
InitEquiv ==
    /\ browser = [p \in Part |-> IF p = 1 THEN "Chrome" ELSE "Firefox"]
    /\ debug = [p \in Part |-> TRUE]
    /\ jitter = 0
    /\ now = Q(Epoch)
    /\ codec = Codec0
    /\ pc = [p \in Part |-> "txBase"]
    /\ wake = [p \in Part |-> Q(Epoch) + Q(settlingTimeMs(browser[p]))]
    /\ \E h \in 0 .. maxSlots, other \in 0 .. maxSlots, x \in Payloads(listSize, maxValue) :
          /\ h + other <= maxSlots
          /\ foreign = [b \in Browsers |-> other]
          /\ sockets = [p \in Part |->
                           consumeOnes([k \in 1 .. h |-> "open"], maxSlots - h)]
          /\ frame = [p \in Part |->
                         [Frame0 EXCEPT !.cmd = "send", !.clicks = 1, !.nStart = h,
                                        !.bigInteger = x, !.startTime = 0,
                                        !.list = bigIntegerToList(x, listSize, maxValue)]]

NextEquiv ==
    \/ \E p \in Part : \/ TxBase(p) \/ TxPulse(p) \/ TxOver(p)
                       \/ TxRelease(p) \/ TxConsume(p)
    \/ ForeignRelease
    \/ Environment

SpecEquiv == InitEquiv /\ [][NextEquiv]_vars

-----------------------------------------------------------------------------
(* Properties *)

Other(p) == CHOOSE q \in Part : q # p

\* The participant is between two cycles of run, the value of the cycle it has
\* finished in ret.
CycleDone(p) == pc[p] \in {"round", "done"} /\ frame[p].ret # <<>>

\* Both participants have returned from the isSender of the same cycle.
BothNegotiated ==
    /\ frame[1].cycle = frame[2].cycle
    /\ frame[1].t0 = frame[2].t0
    /\ frame[1].role # "none"
    /\ frame[2].role # "none"

\* C1: when both participants have returned from isSender on the shared pool,
\* exactly one of them has returned sender (true) and the other receiver
\* (false): never both senders, never both receivers.
C1_NegotiationExclusive ==
    BothNegotiated => frame[1].role # frame[2].role

\* C2: when a sender and a receiver have finished the same cycle, the hex
\* string the receiver returns equals the hex string the sender returns (the
\* receiver's probes recovered every digit).
C2_DigitFidelity ==
    \A p \in Part :
        ( /\ CycleDone(p) /\ CycleDone(Other(p))
          /\ frame[p].cycle = frame[Other(p)].cycle
          /\ frame[p].role = "sender" /\ frame[Other(p)].role = "receiver" )
        => frame[p].ret = frame[Other(p)].ret

\* The transmitter's adjustment for a pulse finishes in this step.
AdjustEnds(p) == pc[p] \in {"txRelease", "txConsume"} /\ pc'[p] # pc[p]

\* The digit of the pulse the transmitter is adjusting for.
Digit(p) == frame[p].list[frame[p].i + 1]

ProbeCompletes(p) == pc[p] \in {"probeConsume", "probeRelease"} /\ pc'[p] = "idle"

\* C4: held() when probe completes equals held() when it was called.
C4_ProbeKeepsHeld ==
    [][\A p \in Part :
          ProbeCompletes(p) => held(sockets'[p]) = frame[p].nStart]_vars

\* C5: where a bulk operation has returned, held() is in
\* 0 .. maxSlots.
C5_HeldWithinCapacity ==
    \A p \in Part : pc[p] = "idle" => held(sockets[p]) \in 0 .. maxSlots

\* C6: for every listSize, maxValue and x in 0 .. maxValue^listSize - 1,
\* listToBigInteger(bigIntegerToList(x)) = x, and bigIntegerToList(x) has
\* exactly listSize digits, least-significant first, each in 0 .. maxValue - 1.
C6_RoundTrip ==
    codec.stage \in {"decoded", "formatted"} =>
        /\ codec.decoded = codec.bigInteger
        /\ Len(codec.list) = codec.listSize
        /\ \A k \in 1 .. codec.listSize :
              /\ codec.list[k] \in 0 .. (codec.maxValue - 1)
              /\ codec.list[k] =
                     (codec.bigInteger \div Pow(codec.maxValue, k - 1)) % codec.maxValue

C6_Witness ==
    /\ codec.stage = "decoded"
    /\ codec.listSize = MaxListSize
    /\ codec.list[1] # codec.list[MaxListSize]
    /\ codec.decoded = codec.bigInteger

HexValueOf(c) == (CHOOSE k \in 1 .. 16 : HexChars[k] = c) - 1

RECURSIVE HexValue(_)
HexValue(str) ==
    IF str = <<>> THEN 0
    ELSE 16 * HexValue(SubSeq(str, 1, Len(str) - 1)) + HexValueOf(str[Len(str)])

\* C7: for every x in 0 .. maxValue^listSize - 1, bigIntegerToHex(x, numBits)
\* is a string of exactly ceil(numBits / 4) hexadecimal characters (the least
\* n with 16^n >= maxValue^listSize), left-padded with zeros, whose value is x.
C7_HexWidth ==
    codec.stage = "formatted" =>
        LET n == Len(codec.hex)
            range == Pow(codec.maxValue, codec.listSize)
        IN  /\ Pow(16, n) >= range
            /\ n > 0 => Pow(16, n - 1) < range
            /\ \A k \in 1 .. n : \E j \in 1 .. 16 : codec.hex[k] = HexChars[j]
            /\ HexValue(codec.hex) = codec.bigInteger

C7_Witness ==
    /\ codec.stage = "formatted"
    /\ Len(codec.hex) = 2
    /\ codec.hex[1] = "0"
    /\ codec.bigInteger > 0

\* When the probe a participant is inside started.
ProbeStart(p) == wake[p] - Q(settlingTimeMs(browser[p]))

\* C8, as stated: in a cycle of run, the receiver starts its i-th probe at
\* t0 + (i + 0.25) * pulseMs.
C8_ProbeAtQuarter ==
    \A p \in Part :
        (pc[p] = "probeConsume" /\ frame[p].cmd = "run") =>
            ProbeStart(p) = frame[p].startTime + (4 * frame[p].i + 1) * pulseMs(browser[p])

\* C8, amended: in a cycle of run, the receiver's i-th probe is scheduled for
\* t0 + (i + 1.25) * pulseMs and starts no earlier, a quarter pulse after the
\* transmitter's i-th adjustment, scheduled for t0 + (i + 1) * pulseMs of the
\* transmitter's own t0.
C8_ProbeAtQuarterAfterAdjustment ==
    \A p \in Part :
        frame[p].cmd = "run" =>
            /\ pc[p] = "rxSleep" =>
                  wake[p] = frame[p].startTime + (4 * frame[p].i + 5) * pulseMs(browser[p])
            /\ pc[p] = "probeConsume" =>
                  ProbeStart(p) >= frame[p].startTime + (4 * frame[p].i + 5) * pulseMs(browser[p])
            /\ pc[p] = "txSleep" =>
                  wake[p] = frame[p].startTime + 4 * (frame[p].i + 1) * pulseMs(browser[p])
            /\ pc[p] \in {"rxSleep", "probeConsume", "txSleep"} =>
                  frame[p].startTime = frame[p].t0

C8_Witness ==
    \E p \in Part :
        /\ pc[p] = "probeConsume" /\ frame[p].cmd = "run" /\ frame[p].i = 0
        /\ pc[Other(p)] = "txSleep" /\ frame[Other(p)].i = 1
        /\ frame[Other(p)].startTime = frame[p].startTime
        /\ ProbeStart(p) = frame[p].startTime + 5 * pulseMs(browser[p])

\* C9: when sendInteger's initial consume has returned in a cycle of run, and
\* its first pulse adjustment has not begun, the transmitter holds exactly
\* maxSlots units.
C9_BaselineFull ==
    \A p \in Part :
        (pc[p] = "txSleep" /\ frame[p].i = 0 /\ frame[p].cmd = "run") =>
            held(sockets[p]) = maxSlots

\* The transmitter has finished its adjustments for n pulses and has not
\* begun the next.
PulsesDone(p, n) ==
    \/ pc[p] = "txSleep" /\ frame[p].i = n
    \/ pc[p] = "idle" /\ frame[p].ret # <<>> /\ n = listSize

NegotiationPcs == {"negRelease", "negConsume", "negYield"}
TransmitPcs == {"txBase", "txSleep", "txOver", "txRelease", "txConsume"}
ReceivePcs == {"rxSleep", "probeConsume", "probeRelease"}

\* The phase of its cycle a participant is in.
Phase(k) ==
    CASE k = "round" -> "INIT"
      [] k \in NegotiationPcs -> "NEGOTIATE"
      [] k \in TransmitPcs -> "TRANSMIT"
      [] k \in ReceivePcs -> "RECEIVE"
      [] OTHER -> "DONE"

\* The phases a step of a participant may lead from one to the other: a cycle
\* ends (DONE) where the next begins (INIT), and the run ends after the last.
PhaseOrder ==
    {<<"INIT", "NEGOTIATE">>, <<"NEGOTIATE", "TRANSMIT">>, <<"NEGOTIATE", "RECEIVE">>,
     <<"TRANSMIT", "INIT">>, <<"RECEIVE", "INIT">>,
     <<"TRANSMIT", "DONE">>, <<"RECEIVE", "DONE">>}

CycleOrder(p) ==
    LET from == Phase(pc[p])
        to == Phase(pc'[p])
    IN  /\ from # to => <<from, to>> \in PhaseOrder
        /\ frame'[p].cycle =
               IF from \in {"TRANSMIT", "RECEIVE"} /\ to \in {"INIT", "DONE"}
               THEN frame[p].cycle + 1 ELSE frame[p].cycle
        /\ to = "DONE" => frame'[p].cycle = NumCycles
        /\ to # "DONE" => frame'[p].cycle < NumCycles

\* C11: a run always terminates after exactly NumCycles cycles (10 in the
\* source), each cycle going INIT -> NEGOTIATE -> exactly one of TRANSMIT or
\* RECEIVE -> DONE, the negotiation executed once per cycle and never retried,
\* whatever the roles and the pool's acquisitions.
C11_RunTerminates ==
    /\ [][\A p \in Part : CycleOrder(p)]_vars
    /\ <>[](\A p \in Part : pc[p] = "done" /\ frame[p].cycle = NumCycles)

C11_Witness ==
    /\ \A p \in Part : pc[p] = "done" /\ frame[p].cycle = NumCycles
    /\ frame[1].role = frame[2].role

\* Two Chrome tabs, both in automatic mode, loaded in the same round interval.
InitChrome ==
    /\ InitPool([p \in Part |-> "Chrome"], [p \in Part |-> FALSE], 0)
    /\ codec = Codec0

NextChrome ==
    \/ \E p \in Part : \/ Round(p)
                       \/ NegRelease(p) \/ NegConsume(p) \/ NegYield(p)
                       \/ TxBase(p) \/ TxPulse(p) \/ TxRelease(p) \/ TxConsume(p)
                       \/ RxPulse(p) \/ ProbeConsume(p) \/ ProbeRelease(p)
    \/ Environment

\* The event loop does not stop while a timer is pending or a function can run.
FairSpec == InitChrome /\ [][NextChrome]_vars /\ WF_vars(NextChrome)

\* C12: when no other participant mutates the pool during the call and the
\* caller's held units are all alive, probe(pool, max) returns the headroom
\* at the call capped at max: min(max, maxSlots - units held by all).
C12_ProbeReturnsHeadroom ==
    [][\A p \in Part :
          ( /\ ProbeCompletes(p)
            /\ frame[p].expect # <<>>
            /\ pc[Other(p)] = "idle"
            /\ frame[Other(p)].clicks = frame[p].expect[2] )
          => frame'[p].ret = frame[p].expect[1]]_vars

\* The max of the consume a command button calls.
ConsumeMax(c) == IF c = "consume 1" THEN 1 ELSE maxSlots * 2

\* C13: the value consume(pool, max) returns is held() after the settle and
\* the garbage collection minus held() at entry, and it lies in 0 .. max.
C13_ConsumeReturnInRange ==
    [][\A p \in Part :
          (pc[p] = "cmdConsume" /\ pc'[p] = "idle") =>
              /\ frame'[p].ret = held(sockets'[p]) - frame[p].nStart
              /\ frame'[p].ret \in 0 .. ConsumeMax(frame[p].cmd)]_vars

ReleasePcs == {"cmdRelease", "probeRelease", "negRelease", "negYield", "txRelease"}

\* A release with max # 0 runs its loop in this step.
ReleaseBegins(p) == pc'[p] \in ReleasePcs /\ pc'[p] # pc[p]

\* The set the release of this step starts from: where the step begins with
\* the end of a consume, the set its garbage collection has left.
HeldBefore(p) ==
    IF pc[p] \in {"probeConsume", "negConsume", "txOver"}
    THEN collectGarbage(sockets[p]) ELSE sockets[p]

\* C14: release(pool, max) removes the oldest units of the set, returns their
\* number, and held() falls by exactly the value returned; with max = 0 it
\* returns 0 and changes nothing.
C14_ReleaseReturnsRemoved ==
    [][\A p \in Part :
          /\ ReleaseBegins(p) =>
                LET before == HeldBefore(p)
                    after == sockets'[p]
                IN  /\ held(before) - held(after) = frame'[p].numberToRelease
                    /\ \A k \in 1 .. Len(after) :
                          after[k] = before[k + Len(before) - Len(after)]
          /\ (pc[p] = "idle" /\ pc'[p] = "idle" /\ frame'[p].clicks > frame[p].clicks) =>
                sockets'[p] = sockets[p] /\ frame'[p].ret = 0]_vars

\* isSender, called by the "is sender" button, returns in this step.
IsSenderReturns(p) == pc[p] \in {"negConsume", "negYield"} /\ pc'[p] = "idle"

\* C15: whenever isSender returns false the caller's held() is 0 at the
\* return, and whenever it returns true the caller's held() is at least
\* maxSlots / 2 at the return and it has released none of the units it holds
\* (only the sockets found dead have left the set).
C15_RoleMatchesHeld ==
    [][\A p \in Part :
          IsSenderReturns(p) =>
              IF frame'[p].ret
              THEN /\ 2 * held(sockets'[p]) >= maxSlots
                   /\ sockets'[p] = collectGarbage(sockets[p])
              ELSE held(sockets'[p]) = 0]_vars

C15_Witness ==
    \E p \in Part :
        /\ pc[p] = "negYield" /\ frame[p].cmd = "is sender"
        /\ held(sockets[p]) = 0
        /\ pc[Other(p)] = "idle"
        /\ 2 * Slots(sockets[Other(p)]) >= maxSlots

\* C16: every digit receiveInteger appends to its list (the probe's result
\* minus 1) lies in 0 .. maxValue - 1.
C16_DigitsInRange ==
    \A p \in Part :
        \A k \in 1 .. Len(frame[p].integerList) :
            frame[p].integerList[k] \in 0 .. (maxValue - 1)

-----------------------------------------------------------------------------
(* Timers that fire late *)

\* The first round boundary after the pages load.
FirstBoundary(p) == CeilTo(Q(Epoch), RoundInterval(p))

\* run: the participant is between the return of sleepUntilNextRoundInterval and
\* the return of sendInteger or receiveInteger, so its t0 is the current cycle's.
InCycle(p) == Phase(pc[p]) \in {"NEGOTIATE", "TRANSMIT", "RECEIVE"}

\* Two Chrome tabs in automatic mode; a timer of the background tab fires when
\* it is due or MaxLate ms later.
InitLate ==
    /\ InitPool([p \in Part |-> "Chrome"], [p \in Part |-> FALSE], MaxLate)
    /\ codec = Codec0

\* setTimeout fires no earlier than asked: the timers of the first tab, which
\* is in the background, fire when they are due or jitter ms later; those of
\* the second tab fire when they are due.
Lateness(p) == IF p = 1 THEN jitter ELSE 0

\* Time passes to an instant at which a timer fires, and not beyond the latest
\* instant at which another pending timer fires.
AdvanceLate ==
    /\ \E p \in Part : \E late \in {0, Lateness(p)} :
          /\ Sleeping(p)
          /\ wake[p] + Q(late) > now
          /\ \A q \in Part :
                Sleeping(q) => wake[p] + Q(late) <= Max(now, wake[q] + Q(Lateness(q)))
          /\ now' = wake[p] + Q(late)
    /\ UNCHANGED <<browser, debug, sockets, foreign, pc, wake, jitter, frame, codec>>

NextLate ==
    \/ \E p \in Part : \/ Round(p)
                       \/ NegRelease(p) \/ NegConsume(p) \/ NegYield(p)
                       \/ TxBase(p) \/ TxPulse(p) \/ TxRelease(p) \/ TxConsume(p)
                       \/ RxPulse(p) \/ ProbeConsume(p) \/ ProbeRelease(p)
    \/ \E p \in Part : Answer(p)
    \/ AdvanceLate

SpecLate == InitLate /\ [][NextLate]_vars

\* C17: in every cycle both participants have the same cycle-start time t0, a
\* multiple of (listSize + 1) * pulseMs one cycle duration after the previous
\* cycle's, and a participant's negotiation and transfer work of a cycle
\* completes before the next boundary, where it then waits for that boundary.
C17_CycleStartAligned ==
    \A p \in Part :
        /\ InCycle(p) =>
              /\ frame[p].t0 = FirstBoundary(p) + frame[p].cycle * RoundInterval(p)
              /\ now < frame[p].t0 + RoundInterval(p)
        /\ pc[p] = "round" =>
              wake[p] = FirstBoundary(p) + frame[p].cycle * RoundInterval(p)
        /\ pc[p] = "done" =>
              now < FirstBoundary(p) + NumCycles * RoundInterval(p)

\* probe: between the first request of its consume and the end of its last
\* settling wait.
InProbe(p) == pc[p] \in {"probeConsume", "probeRelease"}

\* sendInteger: the transmitter t has issued the last consume or release
\* request of pulse i and no request of pulse i + 1.
PulseSettled(t, i) ==
    \/ pc[t] \in {"txRelease", "txConsume"} /\ frame[t].i = i
    \/ pc[t] = "txSleep" /\ frame[t].i = i + 1

\* C18: while the receiver is inside its probe of a pulse, the transmitter of
\* the same cycle has issued its last request of that pulse and has not yet
\* issued a request of the next pulse: no request of the transmitter falls
\* inside a probe, before which the pulse's requests were made and after which
\* the next pulse's are made.
C18_ProbeBetweenMutations ==
    \A t \in Part : \A r \in Part :
        (/\ Phase(pc[t]) = "TRANSMIT"
         /\ InProbe(r)
         /\ frame[t].cycle = frame[r].cycle) => PulseSettled(t, frame[r].i)

\* C19: in the RECEIVE phase the receiver holds no unit whenever it is not
\* inside a probe: it enters the phase with held() = 0 and every probe leaves
\* it with held() = 0.
C19_ReceiverHoldsNone ==
    \A p \in Part :
        (Phase(pc[p]) = "RECEIVE" /\ ~InProbe(p)) => held(sockets[p]) = 0

\* A receiver whose first probe took a unit and gave it back waits for the
\* next pulse holding nothing.
C19_Witness ==
    \E p \in Part :
        /\ pc[p] = "rxSleep"
        /\ frame[p].i = 1
        /\ frame[p].integerList[1] >= 0
        /\ held(sockets[p]) = 0

\* C20: releaseOne is invoked only on a non-empty set: in every call of
\* release, from a button, probe, isSender or sendInteger, with any count, each
\* of the numberToRelease invocations of releaseOne finds a socket to close.
C20_ReleaseOneFindsSocket ==
    [][\A p \in Part :
          ReleaseBegins(p) =>
              \A k \in 1 .. frame'[p].numberToRelease :
                  held(HeldBefore(p)) - (k - 1) > 0]_vars

\* "release 1" was clicked in a tab that holds nothing: release ran with a max
\* larger than held() and invoked releaseOne not once.
C20_Witness ==
    \E p \in Part :
        /\ pc[p] = "cmdRelease"
        /\ frame[p].cmd = "release 1"
        /\ frame[p].numberToRelease = 0
        /\ held(sockets[p]) = 0

=============================================================================
